---- MODULE Spec2Model ----
(***************************************************************************)
(* K2 structure search of src/project1/project1.py: the counting of        *)
(* sufficient statistics (statistics, sub2ind), the Bayesian score          *)
(* (prior, bayesian_score_component, bayesian_score) and the greedy search  *)
(* K2Search.fit, as a state machine.                                        *)
(*                                                                         *)
(* Variables are numbered 0..N-1 as in the code; a data row o is a         *)
(* function 0..N-1 -> Int (o[i] is the state code of variable i), the      *)
(* data table D a sequence of rows, r[i] the cardinality vars[i].r.        *)
(*                                                                         *)
(* Scores are float64 values, computed with the roundings and in the       *)
(* summation order of the code.                                            *)
(***************************************************************************)
EXTENDS Integers, Sequences, FiniteSets, TLC

\* Bounds of the model.
MaxN == 4
MaxR == 2
MaxRows == 2

VARIABLES
    ordering,   \* K2Search.ordering, a sequence of variable indices
    r,          \* r[i] = variables[i].r
    D,          \* the data table
    graph,      \* the working nx.DiGraph: its nodes and predecessor lists
    pc,         \* position in fit / statistics
    outcome,    \* "running", "returned", "exit" (sys.exit(1)), "IndexError"
    k,          \* enumerate index of the outer loop of fit
    c,          \* index into ordering[:k] of the inner for loop
    y,          \* score of the graph with the edges committed so far
    y_best,
    j_best,
    g0,         \* history: the graph when the current round began
    trials,     \* history: <<j, y_prime>> of the trials of the current round
    rounds,     \* history: rounds of the while loop begun for the current node
    visited,    \* history: ordering positions the outer loop has taken
    M,          \* statistics: the count tensors
    t           \* statistics: number of (row, variable) cells counted so far

vars == <<ordering, r, D, graph, pc, outcome, k, c, y, y_best, j_best,
          g0, trials, rounds, visited, M, t>>

N == Cardinality(DOMAIN r)

Vars == 0 .. (N - 1)

(***************************************************************************)
(* Graph: nx.DiGraph reduced to its node set and, per node, the list of    *)
(* predecessors in insertion order (the order G.predecessors yields).      *)
(***************************************************************************)
EmptyGraph(n) == [nodes |-> 0 .. (n - 1), pred |-> [v \in 0 .. (n - 1) |-> <<>>]]

SeqSet(s) == {s[x] : x \in 1 .. Len(s)}

predecessors(G, i) == IF i \in G.nodes THEN G.pred[i] ELSE <<>>

has_edge(G, j, i) == j \in SeqSet(predecessors(G, i))

add_edge(G, j, i) ==
    IF has_edge(G, j, i) THEN G
    ELSE [nodes |-> G.nodes \cup {j, i},
          pred |-> [v \in G.nodes \cup {j, i} |->
                       IF v = i THEN Append(predecessors(G, i), j)
                       ELSE predecessors(G, v)]]

remove_edge(G, j, i) ==
    [G EXCEPT !.pred[i] = SelectSeq(G.pred[i], LAMBDA p : p # j)]

Edges(G) == {e \in G.nodes \X G.nodes : has_edge(G, e[1], e[2])}

(***************************************************************************)
(* Indexing.                                                               *)
(***************************************************************************)
\* A Python/numpy index a into an axis of length n: the position it
\* addresses, or -1 when it raises IndexError.
PyIndex(a, n) ==
    IF a >= 0 /\ a < n THEN a
    ELSE IF a < 0 /\ a >= -n THEN a + n
    ELSE -1

RECURSIVE ProdSeq(_)
ProdSeq(s) == IF s = <<>> THEN 1 ELSE Head(s) * ProdSeq(Tail(s))

RECURSIVE Dot(_, _)
Dot(a, b) == IF a = <<>> THEN 0 ELSE Head(a) * Head(b) + Dot(Tail(a), Tail(b))

\* k = [1] + list(np.cumprod(siz[:-1]))
Strides(siz) == [x \in 1 .. Len(siz) |-> ProdSeq(SubSeq(siz, 1, x - 1))]

sub2ind(siz, x) == Dot(Strides(siz), [e \in 1 .. Len(x) |-> x[e] - 1])

\* q[i] of statistics and prior.
Q(rr, G, i) == ProdSeq([x \in 1 .. Len(predecessors(G, i)) |-> rr[predecessors(G, i)[x]]])

\* The indices M[i][j - 1, k - 1] of statistics, for row o and variable i,
\* as numpy resolves them (-1: IndexError).
Cell(rr, G, o, i) ==
    LET kk == o[i] - 1
        parents == predecessors(G, i)
        j == IF parents = <<>> THEN 1
             ELSE sub2ind([x \in 1 .. Len(parents) |-> rr[parents[x]]],
                          [x \in 1 .. Len(parents) |-> o[parents[x]] - 1])
    IN  <<PyIndex(j - 1, Q(rr, G, i)), PyIndex(kk - 1, rr[i])>>

ZeroTensors(rr, G) ==
    [i \in DOMAIN rr |-> [a \in 0 .. (Q(rr, G, i) - 1) |-> [b \in 0 .. (rr[i] - 1) |-> 0]]]

\* The loops of statistics flattened: step s counts variable s % n of row s \div n.
StepRow(DD, n, s) == DD[(s \div n) + 1]
StepVar(n, s) == s % n

\* r[j] for j in G.predecessors(i) raises IndexError for a predecessor that is
\* no variable.
ShapeError(rr, G) ==
    \E i \in DOMAIN rr : \E p \in SeqSet(predecessors(G, i)) : p \notin DOMAIN rr

CellError(rr, G, o, i) == Cell(rr, G, o, i)[1] = -1 \/ Cell(rr, G, o, i)[2] = -1

Increment(MM, i, cell) ==
    [MM EXCEPT ![i][cell[1]][cell[2]] = @ + 1]

RECURSIVE CountFrom(_, _, _, _, _)
CountFrom(rr, G, DD, MM, s) ==
    LET n == Cardinality(DOMAIN rr) IN
    IF s >= n * Len(DD) THEN [status |-> "ok", M |-> MM]
    ELSE LET cell == Cell(rr, G, StepRow(DD, n, s), StepVar(n, s)) IN
         IF cell[1] = -1 \/ cell[2] = -1 THEN [status |-> "exit", M |-> MM]
         ELSE CountFrom(rr, G, DD, Increment(MM, StepVar(n, s), cell), s + 1)

statistics(rr, G, DD) ==
    IF ShapeError(rr, G) THEN [status |-> "IndexError", M |-> <<>>]
    ELSE CountFrom(rr, G, DD, ZeroTensors(rr, G), 0)

(***************************************************************************)
(* Scores, in the float64 arithmetic of numpy.                             *)
(*                                                                         *)
(* A float is the pair <<hi, lo>> of the integer hi * Limb + lo, with      *)
(* 0 <= lo < Limb, that counts its value in units of 2^-53.  Every float   *)
(* of a score is such an integer: loggamma at 3 .. 12 is at least 0.5, and *)
(* sums and differences of multiples of 2^-53 are multiples of 2^-53.  A   *)
(* float64 keeps 53 bits: a result of more bits is rounded to the nearest  *)
(* float, to the even one on a tie.  The pairs hold magnitudes below 64.   *)
(***************************************************************************)
\* 2^29
Limb == 536870912

\* The tuple of the values of a function on 1 .. n.
Tuple(f) == f \o <<>>

RECURSIVE Pow(_, _)
Pow(b, e) == IF e <= 0 THEN 1 ELSE b * Pow(b, e - 1)

RECURSIVE BitLen(_)
\* The number of bits of h >= 0.
BitLen(h) == IF h = 0 THEN 0 ELSE 1 + BitLen(h \div 2)

\* The pair of the integer h * Limb + l.
FNorm(h, l) == <<h + (l \div Limb), l % Limb>>

FZero == <<0, 0>>

FNeg(x) == IF x[2] = 0 THEN <<-x[1], 0>> ELSE <<-x[1] - 1, Limb - x[2]>>

\* x >= 0 rounded to 53 bits, half to even.
RoundMag(x) ==
    LET e == BitLen(x[1]) - 24
    IN  IF e <= 0 THEN x
        ELSE LET u == Pow(2, e)
                 rem == x[2] % u
                 up == \/ 2 * rem > u
                       \/ 2 * rem = u /\ (x[2] \div u) % 2 = 1
             IN  FNorm(x[1], x[2] - rem + (IF up THEN u ELSE 0))

FRound(x) == IF x[1] < 0 THEN FNeg(RoundMag(FNeg(x))) ELSE RoundMag(x)

\* a + b and a - b of float64
FAdd(a, b) == FRound(FNorm(a[1] + b[1], a[2] + b[2]))

FSub(a, b) == FAdd(a, FNeg(b))

\* scipy.special.loggamma at the integers 1 .. 12: for x < 13 it is the
\* float64 log of the product (x-1)!.
LogGammaTable ==
    << <<0, 0>>, <<0, 0>>, <<11629079, 519715311>>, <<30060735, 341065732>>,
       <<53318895, 306754532>>, <<80320783, 35901000>>, <<110381518, 376966736>>,
       <<143028473, 316457728>>, <<177915713, 264990928>>, <<214779024, 444562672>>,
       <<253409992, 156553552>>, <<293639999, 122793600>> >>

loggamma(x) == LogGammaTable[x]

RECURSIVE AddFrom(_, _, _, _, _)
\* res += a[i] for i = from, from + step, .. <= to
AddFrom(res, a, from, step, to) ==
    IF from > to THEN res
    ELSE AddFrom(FAdd(res, a[from]), a, from + step, step, to)

RECURSIVE PairwiseSum(_, _, _)
\* The pairwise summation of numpy of the n floats a[off + 1 .. off + n]: a
\* plain loop below 8 floats, eight running sums up to 128, two halves above.
PairwiseSum(a, off, n) ==
    IF n < 8 THEN AddFrom(FZero, a, off + 1, 1, off + n)
    ELSE IF n <= 128
    THEN LET m == n - (n % 8)
             acc(x) == AddFrom(a[off + x], a, off + x + 8, 8, off + m)
             res == FAdd(FAdd(FAdd(acc(1), acc(2)), FAdd(acc(3), acc(4))),
                         FAdd(FAdd(acc(5), acc(6)), FAdd(acc(7), acc(8))))
         IN  AddFrom(res, a, off + m + 1, 1, off + n)
    ELSE LET h == n \div 2
             n2 == h - (h % 8)
         IN  FAdd(PairwiseSum(a, off, n2), PairwiseSum(a, off + n2, n - n2))

\* np.sum of a contiguous array of floats: the identity 0 plus the pairwise sum.
npsum(a) == FAdd(FZero, PairwiseSum(a, 0, Len(a)))

RECURSIVE SumSeq(_)
SumSeq(s) == IF s = <<>> THEN 0 ELSE Head(s) + SumSeq(Tail(s))

\* np.sum(A, axis=1)[a] of a tensor row of whole numbers.
RowSum(row) == SumSeq([b \in 1 .. Cardinality(DOMAIN row) |-> row[b - 1]])

\* alpha of prior: all entries 1, the shape of the counts.
prior(rr, G) ==
    [i \in DOMAIN rr |-> [a \in 0 .. (Q(rr, G, i) - 1) |-> [b \in 0 .. (rr[i] - 1) |-> 1]]]

\* The component score of one variable; an array of shape (q, r) is summed
\* row by row.
bayesian_score_component(Mi, alpha) ==
    LET qi == Cardinality(DOMAIN Mi)
        ri == Cardinality(DOMAIN Mi[0])
        alpha_0 == [a \in 0 .. (qi - 1) |-> RowSum(alpha[a])]
        p1 == npsum(Tuple([e \in 1 .. (qi * ri) |->
                  loggamma(alpha[(e - 1) \div ri][(e - 1) % ri]
                             + Mi[(e - 1) \div ri][(e - 1) % ri])]))
        p2 == FSub(p1, npsum(Tuple([e \in 1 .. (qi * ri) |->
                  loggamma(alpha[(e - 1) \div ri][(e - 1) % ri])])))
        p3 == FAdd(p2, npsum(Tuple([a \in 1 .. qi |-> loggamma(alpha_0[a - 1])])))
    IN  FSub(p3, npsum(Tuple([a \in 1 .. qi |->
                  loggamma(alpha_0[a - 1] + RowSum(Mi[a - 1]))])))

\* -np.inf
NegInf == [inf |-> TRUE, v |-> FZero]

\* The score, or the way statistics ended when it did not return.
bayesian_score(rr, G, DD) ==
    LET st == statistics(rr, G, DD)
        alpha == prior(rr, G)
    IN  IF st.status # "ok" THEN [status |-> st.status, y |-> NegInf]
        ELSE [status |-> "ok",
              y |-> [inf |-> FALSE,
                     v |-> npsum(Tuple([i \in 1 .. Cardinality(DOMAIN rr) |->
                              bayesian_score_component(st.M[i - 1], alpha[i - 1])]))]]

\* a > b on float64, -np.inf included.
Greater(a, b) ==
    IF a.inf THEN FALSE
    ELSE IF b.inf THEN TRUE
    ELSE a.v[1] > b.v[1] \/ (a.v[1] = b.v[1] /\ a.v[2] > b.v[2])

(***************************************************************************)
(* K2Search.fit.                                                           *)
(***************************************************************************)
\* i of the outer loop: enumerate(self.ordering[1:]) at index k.
Node == ordering[k + 2]

\* A search that tries every node of the ordering as a parent, the node itself
\* included.
CandidatesWholeOrdering == ordering

\* self.ordering[:k]
Candidates == SubSeq(ordering, 1, IF k < Len(ordering) THEN k ELSE Len(ordering))

Running == outcome = "running"

\* if not graph.has_edge(j, i): the negated test
AlreadyParent(j, i) == has_edge(graph, j, i)

\* if y_prime > y_best
BeatsBest(y_prime, best) == Greater(y_prime, best)

\* A search that commits the best trial when it ties with the current score.
ImprovesOrTies(best, cur) == ~Greater(cur, best)

\* if y_best > y
Improves(best, cur) == Greater(best, cur)

\* for k, i in enumerate(self.ordering[1:]): y = bayesian_score(...)
ForNext ==
    /\ Running /\ pc = "for" /\ k + 2 <= Len(ordering)
    /\ \E s \in {bayesian_score(r, graph, D)} :
         /\ outcome' = IF s.status = "ok" THEN "running" ELSE s.status
         /\ y' = IF s.status = "ok" THEN s.y ELSE y
         /\ pc' = IF s.status = "ok" THEN "while" ELSE pc
    /\ rounds' = 0
    /\ visited' = Append(visited, k + 1)
    /\ UNCHANGED <<ordering, r, D, graph, k, c, y_best, j_best, g0, trials, M, t>>

\* The outer loop is exhausted: return graph.
Return ==
    /\ Running /\ pc = "for" /\ k + 2 > Len(ordering)
    /\ outcome' = "returned"
    /\ UNCHANGED <<ordering, r, D, graph, pc, k, c, y, y_best, j_best,
                   g0, trials, rounds, visited, M, t>>

\* while True: y_best, j_best = -np.inf, 0
WhileBegin ==
    /\ Running /\ pc = "while"
    /\ y_best' = NegInf
    /\ j_best' = 0
    /\ c' = 0
    /\ pc' = "scan"
    /\ g0' = graph
    /\ trials' = <<>>
    /\ rounds' = rounds + 1
    /\ UNCHANGED <<ordering, r, D, graph, outcome, k, y, visited, M, t>>

\* for j in self.ordering[:k]: if not graph.has_edge(j, i): graph.add_edge(j, i)
AddTrial ==
    /\ Running /\ pc = "scan" /\ c < Len(Candidates)
    /\ ~AlreadyParent(Candidates[c + 1], Node)
    /\ graph' = add_edge(graph, Candidates[c + 1], Node)
    /\ pc' = "trial"
    /\ UNCHANGED <<ordering, r, D, outcome, k, c, y, y_best, j_best,
                   g0, trials, rounds, visited, M, t>>

\* The candidate is a parent already: next j.
SkipPresent ==
    /\ Running /\ pc = "scan" /\ c < Len(Candidates)
    /\ AlreadyParent(Candidates[c + 1], Node)
    /\ c' = c + 1
    /\ UNCHANGED <<ordering, r, D, graph, pc, outcome, k, y, y_best, j_best,
                   g0, trials, rounds, visited, M, t>>

\* y_prime = bayesian_score(...); if y_prime > y_best: ...; graph.remove_edge(j, i)
ScoreTrial ==
    /\ Running /\ pc = "trial"
    /\ \E s \in {bayesian_score(r, graph, D)} : \E j \in {Candidates[c + 1]} :
          IF s.status # "ok"
          THEN /\ outcome' = s.status
               /\ UNCHANGED <<graph, pc, c, y_best, j_best, trials>>
          ELSE /\ y_best' = IF BeatsBest(s.y, y_best) THEN s.y ELSE y_best
               /\ j_best' = IF BeatsBest(s.y, y_best) THEN j ELSE j_best
               /\ graph' = remove_edge(graph, j, Node)
               /\ trials' = Append(trials, <<j, s.y>>)
               /\ c' = c + 1
               /\ pc' = "scan"
               /\ UNCHANGED outcome
    /\ UNCHANGED <<ordering, r, D, k, y, g0, rounds, visited, M, t>>

\* if y_best > y: y = y_best; graph.add_edge(j_best, i)
Commit ==
    /\ Running /\ pc = "scan" /\ c >= Len(Candidates)
    /\ Improves(y_best, y)
    /\ y' = y_best
    /\ graph' = add_edge(graph, j_best, Node)
    /\ pc' = "while"
    /\ UNCHANGED <<ordering, r, D, outcome, k, c, y_best, j_best,
                   g0, trials, rounds, visited, M, t>>

\* else: break
Break ==
    /\ Running /\ pc = "scan" /\ c >= Len(Candidates)
    /\ ~Improves(y_best, y)
    /\ k' = k + 1
    /\ pc' = "for"
    /\ UNCHANGED <<ordering, r, D, graph, outcome, c, y, y_best, j_best,
                   g0, trials, rounds, visited, M, t>>

Next == ForNext \/ Return \/ WhileBegin \/ AddTrial \/ SkipPresent
        \/ ScoreTrial \/ Commit \/ Break

(***************************************************************************)
(* statistics, one (row, variable) iteration of its loops per step.        *)
(***************************************************************************)
Counting == Running /\ pc = "count"

\* M[i][j - 1, k - 1] += 1.0
Count ==
    /\ Counting /\ t < N * Len(D)
    /\ ~CellError(r, graph, StepRow(D, N, t), StepVar(N, t))
    /\ M' = Increment(M, StepVar(N, t), Cell(r, graph, StepRow(D, N, t), StepVar(N, t)))
    /\ t' = t + 1
    /\ UNCHANGED <<ordering, r, D, graph, pc, outcome, k, c, y, y_best, j_best,
                   g0, trials, rounds, visited>>

\* except Exception as e: print(M, i, j, k, e); sys.exit(1)
CountFail ==
    /\ Counting /\ t < N * Len(D)
    /\ CellError(r, graph, StepRow(D, N, t), StepVar(N, t))
    /\ outcome' = "exit"
    /\ UNCHANGED <<ordering, r, D, graph, pc, k, c, y, y_best, j_best,
                   g0, trials, rounds, visited, M, t>>

\* return M
CountReturn ==
    /\ Counting /\ t >= N * Len(D)
    /\ outcome' = "returned"
    /\ UNCHANGED <<ordering, r, D, graph, pc, k, c, y, y_best, j_best,
                   g0, trials, rounds, visited, M, t>>

NextStat == Count \/ CountFail \/ CountReturn

(***************************************************************************)
(* Inputs.                                                                 *)
(***************************************************************************)
\* Variables of the runs whose ordering is unconstrained and of the tables
\* with out-of-range values; variables of the runs of statistics alone.
MaxNFree == 2
MaxNStat == 3
MaxNWide == 3
MaxRWide == 3

Perms(n) == {s \in [1 .. n -> 0 .. (n - 1)] : \A a, b \in 1 .. n : s[a] = s[b] => a = b}

\* A permutation of exactly the variable indices.
ValidOrdering(o, n) == o \in Perms(n)

\* Any sequence of at most n + 1 indices among 0 .. n (n is no variable).
AnyOrdering(n) == UNION {[1 .. len -> 0 .. n] : len \in 0 .. (n + 1)}

Cards(n) == [0 .. (n - 1) -> 1 .. MaxR]

\* Up to MaxNWide variables take cardinalities up to MaxRWide.
WideCards(n) == IF n <= MaxNWide THEN [0 .. (n - 1) -> 1 .. MaxRWide] ELSE {}

MaxCard == IF MaxRWide > MaxR THEN MaxRWide ELSE MaxR

\* Rows whose value for variable i lies in lo .. r[i] + hi.
RowsIn(rr, lo, hi) ==
    {o \in [DOMAIN rr -> lo .. (MaxCard + hi)] : \A i \in DOMAIN rr : o[i] <= rr[i] + hi}

WellFormedRows(rr) == RowsIn(rr, 1, 0)

\* Rows with values from 0 to r[i] + 1.
RawRows(rr) == RowsIn(rr, 0, 1)

TablesOver(rows, maxlen) == UNION {[1 .. len -> rows] : len \in 0 .. maxlen}

WellFormed(rr, DD) == \A x \in 1 .. Len(DD) : \A i \in DOMAIN rr : DD[x][i] \in 1 .. rr[i]

Cnt(DD, i, a) == Cardinality({x \in 1 .. Len(DD) : DD[x][i] = a})

Cnt2(DD, i, a, j, b) == Cardinality({x \in 1 .. Len(DD) : DD[x][i] = a /\ DD[x][j] = b})

Independent(DD, i, j) ==
    \A a, b \in 1 .. 2 : Cnt2(DD, i, a, j, b) * Len(DD) = Cnt(DD, i, a) * Cnt(DD, j, b)

\* The tables of the concrete scenario: 3 binary variables (each takes both
\* its states), 4 rows, variable 1 equal to variable 0 in every row and
\* variable 2 independent of both.
ScenarioData(rr, DD) ==
    /\ DOMAIN rr = 0 .. 2 /\ \A i \in 0 .. 2 : rr[i] = 2
    /\ Len(DD) = 4
    /\ \A i \in 0 .. 2 : \A a \in 1 .. 2 : Cnt(DD, i, a) > 0
    /\ \A x \in 1 .. 4 : DD[x][1] = DD[x][0]
    /\ Independent(DD, 2, 0) /\ Independent(DD, 2, 1)

ScenarioTables(rr) ==
    IF DOMAIN rr = 0 .. 2 /\ \A i \in 0 .. 2 : rr[i] = 2
    THEN {DD \in [1 .. 4 -> WellFormedRows(rr)] : ScenarioData(rr, DD)}
    ELSE {}

\* The sequences without repetition over 0 .. n-1.
InjSeqs(n) ==
    UNION {{s \in [1 .. len -> 0 .. (n - 1)] : \A a, b \in 1 .. len : s[a] = s[b] => a = b} :
           len \in 0 .. n}

\* Every non-empty set of nodes has a node with no predecessor in the set.
Acyclic(G) ==
    \A S \in SUBSET G.nodes :
        S # {} => \E v \in S : \A u \in S : ~has_edge(G, u, v)

Dags(n) == {G \in [nodes : {0 .. (n - 1)}, pred : [0 .. (n - 1) -> InjSeqs(n)]] : Acyclic(G)}

InitFit(n) ==
    /\ graph = EmptyGraph(n)
    /\ pc = "for" /\ outcome = "running"
    /\ k = 0 /\ c = 0
    /\ y = NegInf /\ y_best = NegInf /\ j_best = 0
    /\ g0 = EmptyGraph(n) /\ trials = <<>> /\ rounds = 0 /\ visited = <<>>
    /\ M = <<>> /\ t = 0

\* fit on well-formed inputs.
Init ==
    \E n \in 1 .. MaxN :
        /\ r \in Cards(n) \cup WideCards(n)
        /\ ordering \in Perms(n)
        /\ D \in TablesOver(WellFormedRows(r), MaxRows) \cup ScenarioTables(r)
        /\ InitFit(n)

Spec == Init /\ [][Next]_vars

\* fit on any ordering, the constructor checking nothing.
InitFree ==
    \E n \in 1 .. MaxNFree :
        /\ r \in Cards(n)
        /\ ordering \in AnyOrdering(n)
        /\ D \in TablesOver(WellFormedRows(r), MaxRows)
        /\ InitFit(n)

SpecFree == InitFree /\ [][Next]_vars

\* statistics on any DAG; tables with out-of-range values for few variables.
InitStat ==
    \E n \in 1 .. MaxNStat :
        /\ r \in Cards(n)
        /\ graph \in Dags(n)
        /\ D \in TablesOver(WellFormedRows(r), MaxRows)
                   \cup (IF n <= MaxNFree THEN TablesOver(RawRows(r), MaxRows) ELSE {})
        /\ M = ZeroTensors(r, graph) /\ t = 0
        /\ pc = "count" /\ outcome = "running"
        /\ ordering = <<>> /\ k = 0 /\ c = 0
        /\ y = NegInf /\ y_best = NegInf /\ j_best = 0
        /\ g0 = EmptyGraph(n) /\ trials = <<>> /\ rounds = 0 /\ visited = <<>>

SpecStat == InitStat /\ [][NextStat]_vars

(***************************************************************************)
(* Properties.                                                             *)
(***************************************************************************)
\* The position of node v in the ordering.
Pos(v) == CHOOSE p \in 1 .. Len(ordering) : ordering[p] = v

\* The inner for loop of the current round has run out.
RoundDone == Running /\ pc = "scan" /\ c >= Len(Candidates)

\* The edges of the graph but the tentative one.
CommittedEdges ==
    IF pc = "trial" THEN Edges(graph) \ {<<Candidates[c + 1], Node>>} ELSE Edges(graph)

\* C1: in the concrete scenario (r = [2,2,2], ordering [0,1,2], 4 rows, variable 1
\* equal to variable 0, variable 2 independent of both) fit returns the graph
\* whose edge set is exactly {(0,1)}.
C1_ScenarioEdges ==
    (ScenarioData(r, D) /\ ordering = <<0, 1, 2>> /\ outcome = "returned")
        => Edges(graph) = {<<0, 1>>}

\* C2: for a valid permutation, in every state of the search (a tentative edge
\* held or not) every edge j -> i of the working graph has j at a strictly
\* earlier position than i, and the graph is acyclic, without self-loop.
C2_EdgesFollowOrdering ==
    /\ \A e \in Edges(graph) : Pos(e[1]) < Pos(e[2]) /\ e[1] # e[2]
    /\ Acyclic(graph)

\* A tentative edge is held beside a committed one.
C2_Witness == Running /\ pc = "trial" /\ Cardinality(Edges(graph)) >= 2

\* C3: a value outside 1..r_i is never counted into a cell: statistics fails
\* instead, and so never returns for a table that holds one.
C3_OutOfRangeRejected ==
    /\ \A s \in 0 .. (t - 1) :
          StepRow(D, N, s)[StepVar(N, s)] \in 1 .. r[StepVar(N, s)]
    /\ outcome = "returned" => WellFormed(r, D)

\* C4: an ordering that is no permutation of the variable indices is rejected
\* before the search takes a step: no position is visited, no edge tried or
\* committed, and fit does not return a graph.
C4_InvalidOrderingRejected ==
    ~ValidOrdering(ordering, N)
        => /\ outcome \in {"running", "InvalidOrdering"}
           /\ visited = <<>>
           /\ Edges(graph) = {}

\* C5: on well-formed inputs (constant variables included) no counting step
\* raises an index error or ends the process.
C5_NoInternalError == outcome \in {"running", "returned"}

RECURSIVE TensorSum(_, _)
\* The sum of the rows a .. of a tensor.
TensorSum(Mi, a) ==
    IF a >= Cardinality(DOMAIN Mi) THEN 0 ELSE RowSum(Mi[a]) + TensorSum(Mi, a + 1)

\* C6: for every DAG and every well-formed table statistics returns tensors
\* whose entries sum, for every variable, to the number of rows.
C6_CountsConserved ==
    WellFormed(r, D)
        => /\ outcome # "exit"
           /\ outcome = "returned" => \A i \in Vars : TensorSum(M[i], 0) = Len(D)

\* The 0-indexed mixed-radix index of the states of the parents P in row o:
\* the sum over t of (o[P_t] - 1) * (product of r[P_u] for u < t).
MixedRadix(rr, P, o) ==
    SumSeq([x \in 1 .. Len(P) |->
              (o[P[x]] - 1) * ProdSeq([u \in 1 .. (x - 1) |-> rr[P[u]]])])

\* C7: when the inner for loop of a round has run out, the candidates it tried
\* are exactly the nodes at the positions before the node's that were no
\* parents when the round began; and when the search has left a node, no absent
\* edge from an earlier position scores strictly above the current score.
C7_CandidatesAllEarlier ==
    /\ RoundDone =>
          {trials[x][1] : x \in 1 .. Len(trials)}
            = {ordering[p] : p \in 1 .. (k + 1)} \ SeqSet(predecessors(g0, Node))
    /\ (Running /\ pc = "for" /\ k >= 1) =>
          \A p \in 1 .. k :
              ~has_edge(graph, ordering[p], ordering[k + 1]) =>
                  ~Greater(bayesian_score(r, add_edge(graph, ordering[p], ordering[k + 1]), D).y, y)

\* C8: for well-formed data the tensors statistics returns count each row in
\* the cell [j, row[i] - 1], j the mixed-radix index of the parents' states.
C8_CellIsMixedRadix ==
    (WellFormed(r, D) /\ outcome = "returned") =>
        \A i \in Vars : \A a \in DOMAIN M[i] : \A b \in DOMAIN M[i][a] :
            M[i][a][b] = Cardinality({x \in 1 .. Len(D) :
                                        /\ MixedRadix(r, predecessors(graph, i), D[x]) = a
                                        /\ D[x][i] - 1 = b})

\* No trial of the round scores above trial x.
IsMax(x) == \A z \in 1 .. Len(trials) : ~Greater(trials[z][2], trials[x][2])

\* The first trial of the round with the maximum score.
FirstBest == CHOOSE x \in 1 .. Len(trials) : IsMax(x) /\ \A z \in 1 .. (x - 1) : ~IsMax(z)

\* C9: when a round decides, an edge is committed exactly when some trial
\* scored strictly above y; the edge is that of the first trial with the
\* maximum score, the graph is then the graph the round began with plus that
\* edge; otherwise the loop for the node ends with the graph the round began with.
C9_RoundDecision ==
    [][RoundDone =>
         IF \E x \in 1 .. Len(trials) : Greater(trials[x][2], y)
         THEN /\ pc' = "while"
              /\ graph' = add_edge(g0, trials[FirstBest][1], Node)
              /\ y' = trials[FirstBest][2]
         ELSE /\ pc' = "for"
              /\ graph' = g0]_vars

\* An edge has just been committed after a round whose first two trials tied
\* for the maximum: the first one's edge is in the graph.
C9_Witness ==
    /\ Running /\ pc = "while" /\ rounds >= 1 /\ Len(trials) >= 2
    /\ trials[1][2] = trials[2][2] /\ IsMax(1)
    /\ ~has_edge(g0, trials[1][1], Node)
    /\ has_edge(graph, trials[1][1], Node)

\* What a round costs at most: a step to begin it, two for each candidate,
\* one to decide.
RoundCost == 2 * Len(ordering) + 3

RECURSIVE Rest(_)
\* A bound on the steps the outer loop takes from its iteration kk on: the
\* node of iteration kk takes a step to score and at most kk + 1 rounds.
Rest(kk) ==
    IF kk + 2 > Len(ordering) THEN 1
    ELSE 1 + (kk + 1) * RoundCost + Rest(kk + 1)

\* The candidates that are no committed parent of the node.
Absent ==
    Cardinality({x \in 1 .. Len(Candidates) :
                    <<Candidates[x], Node>> \notin CommittedEdges})

\* A bound on the steps fit has left, zero when it has ended.
Measure ==
    IF ~Running THEN 0
    ELSE IF pc = "for" THEN Rest(k)
    ELSE IF pc = "while" THEN (Absent + 1) * RoundCost + Rest(k + 1)
    ELSE IF pc = "scan"
         THEN 2 * (Len(Candidates) - c) + 1 + Absent * RoundCost + Rest(k + 1)
    ELSE 2 * (Len(Candidates) - c) + Absent * RoundCost + Rest(k + 1)

\* Every step of fit takes the measure down, keeps the committed edges and the
\* bound of p + 1 rounds for the node at position p (p = k + 1).
StepsTowardsEnd ==
    /\ Measure' < Measure
    /\ CommittedEdges \subseteq CommittedEdges'
    /\ rounds' <= k' + 2

\* C10: for a valid permutation and well-formed data fit terminates: every
\* step takes a bounded measure down, committed edges are never removed, the
\* node at position p takes at most p + 1 rounds, and the run ends by returning
\* the graph of the N nodes after the outer loop has taken the positions
\* 1 .. N-1 once each, in order (for N = 1, none, and no edge).
C10_Terminates ==
    [][/\ StepsTowardsEnd
       /\ ~Running' =>
             /\ outcome' = "returned"
             /\ visited' = [p \in 1 .. (N - 1) |-> p]
             /\ graph'.nodes = Vars
             /\ (N = 1 => Edges(graph') = {})]_vars

\* The part of C10 that holds: the steps go towards the end, and a run that
\* returns has taken the positions 1 .. N-1 once each.
TerminatesOrExits ==
    [][/\ StepsTowardsEnd
       /\ outcome' = "returned" =>
             /\ visited' = [p \in 1 .. (N - 1) |-> p]
             /\ graph'.nodes = Vars
             /\ (N = 1 => Edges(graph') = {})]_vars

====
